---------------------------- MODULE Spec2Model ----------------------------
(***************************************************************************)
(* A model of Task_1.py: the address book (AddressBook, a dict that keeps *)
(* insertion order), its records (Record: name, phones, birthday), the    *)
(* validated fields (Phone, Birthday) and the command handlers that the   *)
(* main loop dispatches to.                                                *)
(*                                                                         *)
(* Python strings that the code inspects character by character (phone    *)
(* values, date strings) are sequences of one-character strings.  Names   *)
(* are only ever compared for equality and are TLA+ strings.              *)
(***************************************************************************)
EXTENDS Integers, Sequences, FiniteSets, TLC

VARIABLES book, prev, last

vars == <<book, prev, last>>

---------------------------------------------------------------------------
(* Characters and strings *)

DigitChars == <<"0", "1", "2", "3", "4", "5", "6", "7", "8", "9">>

Digits == {DigitChars[i] : i \in 1..10}

DigitVal(c) == (CHOOSE i \in 1..10 : DigitChars[i] = c) - 1

AllDigits(s) == \A i \in 1..Len(s) : s[i] \in Digits

\* The number a non-empty string of digits denotes.
RECURSIVE NumVal(_)
NumVal(s) ==
    IF Len(s) = 0 THEN 0
    ELSE 10 * NumVal(SubSeq(s, 1, Len(s) - 1)) + DigitVal(s[Len(s)])

\* n copies of the character c.
Rep(c, n) == [i \in 1..n |-> c]

---------------------------------------------------------------------------
(* Phone: Field whose value must fullmatch \d{10} *)

PhoneLen == 10

PhoneError == "Phone number must be 10 digits."

\* re.fullmatch(r'\d{10}', value)
PhoneMatches(value) == Len(value) = PhoneLen /\ AllDigits(value)

\* Phone.validate: the exception it raises, "" when it returns normally.
validate(value) == IF PhoneMatches(value) THEN "" ELSE PhoneError

---------------------------------------------------------------------------
(* Calendar dates (datetime.date) *)

date(y, m, d) == [year |-> y, month |-> m, day |-> d]

\* Record.birthday = None
None == date(0, 0, 0)

IsLeap(y) == (y % 4 = 0) /\ ((y % 100 # 0) \/ (y % 400 = 0))

DaysInMonth(y, m) ==
    IF m = 2 THEN (IF IsLeap(y) THEN 29 ELSE 28)
    ELSE IF m \in {4, 6, 9, 11} THEN 30 ELSE 31

\* What the date constructor accepts (years 1 to 9999); anything else raises
\* ValueError.
ValidDate(y, m, d) ==
    /\ y \in 1..9999
    /\ m \in 1..12
    /\ d \in 1..DaysInMonth(y, m)

DaysBeforeYear(y) ==
    (y - 1) * 365 + ((y - 1) \div 4) - ((y - 1) \div 100) + ((y - 1) \div 400)

RECURSIVE DaysBeforeMonth(_, _)
DaysBeforeMonth(y, m) ==
    IF m = 1 THEN 0 ELSE DaysBeforeMonth(y, m - 1) + DaysInMonth(y, m - 1)

\* date.toordinal(): 1 for 01.01.0001.
ToOrdinal(dt) == DaysBeforeYear(dt.year) + DaysBeforeMonth(dt.year, dt.month) + dt.day

\* (a - b).days
DaysBetween(a, b) == ToOrdinal(a) - ToOrdinal(b)

\* str() of the ValueError of a date that does not exist.
ReplaceError == "day is out of range for month"

\* date.replace(year=y): the new date, or the ValueError the constructor raises.
ReplaceYear(dt, y) ==
    IF ValidDate(y, dt.month, dt.day)
    THEN [raised |-> "", value |-> date(y, dt.month, dt.day)]
    ELSE [raised |-> ReplaceError, value |-> None]

---------------------------------------------------------------------------
(* Birthday: Field whose value is datetime.strptime(value, "%d.%m.%Y").date() *)

BirthdayError == "Invalid date format. Use DD.MM.YYYY"

DotsOf(s) == {i \in 1..Len(s) : s[i] = "."}

\* %d: 3[0-1] | [1-2]\d | 0[1-9] | [1-9] | " "[1-9]
DayField(f) ==
    \/ Len(f) = 2 /\ AllDigits(f) /\ NumVal(f) \in 1..31
    \/ Len(f) = 1 /\ AllDigits(f) /\ NumVal(f) \in 1..9
    \/ Len(f) = 2 /\ f[1] = " " /\ f[2] \in Digits /\ DigitVal(f[2]) \in 1..9

\* %m: 1[0-2] | 0[1-9] | [1-9]
MonthField(f) ==
    \/ Len(f) = 2 /\ AllDigits(f) /\ NumVal(f) \in 1..12
    \/ Len(f) = 1 /\ AllDigits(f) /\ NumVal(f) \in 1..9

\* %Y: \d\d\d\d
YearField(f) == Len(f) = 4 /\ AllDigits(f)

\* The day field of a string that matched DayField, as a number.
DayNum(f) == IF f[1] = " " THEN DigitVal(f[2]) ELSE NumVal(f)

\* strptime(value, "%d.%m.%Y").date(): the three fields are separated by the
\* two literal dots, the whole string must be consumed, and the fields must
\* name a real date.
strptime(value) ==
    LET dots == DotsOf(value) IN
    IF Cardinality(dots) # 2 THEN [raised |-> BirthdayError, value |-> None]
    ELSE
      LET i1 == CHOOSE i \in dots : \A j \in dots : i <= j
          i2 == CHOOSE i \in dots : \A j \in dots : j <= i
          df == SubSeq(value, 1, i1 - 1)
          mf == SubSeq(value, i1 + 1, i2 - 1)
          yf == SubSeq(value, i2 + 1, Len(value))
      IN IF DayField(df) /\ MonthField(mf) /\ YearField(yf)
            /\ ValidDate(NumVal(yf), NumVal(mf), DayNum(df))
         THEN [raised |-> "", value |-> date(NumVal(yf), NumVal(mf), DayNum(df))]
         ELSE [raised |-> BirthdayError, value |-> None]

\* Birthday.__init__: every ValueError of the parse is re-raised with the
\* class's own message.
Birthday(value) == strptime(value)

---------------------------------------------------------------------------
(* Record *)

\* Record.__init__
Record(name) == [name |-> name, phones |-> <<>>, birthday |-> None]

\* add_phone as it would be with the append before the validation.
add_phone_append_first(record, phone) ==
    [raised |-> validate(phone),
     record |-> [record EXCEPT !.phones = Append(@, phone)]]

\* Phone.__init__ followed by list.append: the value is validated before the
\* append is reached.
add_phone(record, phone) ==
    IF validate(phone) # ""
    THEN [raised |-> validate(phone), record |-> record]
    ELSE [raised |-> "", record |-> [record EXCEPT !.phones = Append(@, phone)]]

\* The list comprehension keeps, in order, the phones that differ from phone.
remove_phone(record, phone) ==
    [record EXCEPT !.phones = SelectSeq(@, LAMBDA p : p # phone)]

PhoneNotFoundError == "Phone number not found."

\* Index of the first phone equal to phone, 0 when there is none.
FirstIndex(phones, phone) ==
    IF \E i \in 1..Len(phones) : phones[i] = phone
    THEN CHOOSE i \in 1..Len(phones) :
            /\ phones[i] = phone
            /\ \A j \in 1..(i - 1) : phones[j] # phone
    ELSE 0

\* edit_phone as it would be without the return in the loop: every matching
\* phone gets the new value.
edit_phone_every(record, old_phone, new_phone) ==
    IF FirstIndex(record.phones, old_phone) = 0
    THEN [raised |-> PhoneNotFoundError, record |-> record]
    ELSE [raised |-> validate(new_phone),
          record |-> [record EXCEPT !.phones =
                         [j \in 1..Len(@) |->
                             IF @[j] = old_phone THEN new_phone ELSE @[j]]]]

\* edit_phone as it would be with the validation before the assignment.
edit_phone_validate_first(record, old_phone, new_phone) ==
    LET i == FirstIndex(record.phones, old_phone) IN
    IF i = 0 THEN [raised |-> PhoneNotFoundError, record |-> record]
    ELSE IF validate(new_phone) # ""
    THEN [raised |-> validate(new_phone), record |-> record]
    ELSE [raised |-> "", record |-> [record EXCEPT !.phones[i] = new_phone]]

\* The loop assigns the new value to the first matching phone, then validates
\* it, then returns; falling out of the loop raises.
edit_phone(record, old_phone, new_phone) ==
    LET i == FirstIndex(record.phones, old_phone) IN
    IF i = 0 THEN [raised |-> PhoneNotFoundError, record |-> record]
    ELSE [raised |-> validate(new_phone),
          record |-> [record EXCEPT !.phones[i] = new_phone]]

\* The marker find_phone returns when no phone matches.
PhoneNotFound == <<"Phone number not found.">>

find_phone(record, phone) ==
    IF FirstIndex(record.phones, phone) # 0 THEN phone ELSE PhoneNotFound

\* Birthday(birthday) is constructed before the assignment.
add_birthday(record, birthday) ==
    IF Birthday(birthday).raised # ""
    THEN [raised |-> Birthday(birthday).raised, record |-> record]
    ELSE [raised |-> "",
          record |-> [record EXCEPT !.birthday = Birthday(birthday).value]]

---------------------------------------------------------------------------
(* AddressBook: self.data, a dict, as the sequence of its items in          *)
(* insertion order                                                         *)

\* Position of the item with this key, 0 when there is none.
IndexOf(data, name) ==
    IF \E i \in 1..Len(data) : data[i].key = name
    THEN CHOOSE i \in 1..Len(data) : data[i].key = name
    ELSE 0

\* add_record as it would be on a list of items: always one more item.
add_record_append(data, record) ==
    Append(data, [key |-> record.name, record |-> record])

\* self.data[record.name.value] = record: a new key goes to the end, an
\* existing key keeps its place and gets the new value.
add_record(data, record) ==
    LET i == IndexOf(data, record.name) IN
    IF i = 0 THEN Append(data, [key |-> record.name, record |-> record])
    ELSE [data EXCEPT ![i].record = record]

ContactNotFound == "Contact not found."

\* self.data.get(name, "Contact not found."); isRecord is what the callers'
\* isinstance(record, Record) sees of the value.
find(data, name) ==
    LET i == IndexOf(data, name) IN
    IF i = 0 THEN [isRecord |-> FALSE, value |-> ContactNotFound]
    ELSE [isRecord |-> TRUE, value |-> data[i].record]

RemoveAt(data, i) == SubSeq(data, 1, i - 1) \o SubSeq(data, i + 1, Len(data))

\* delete as it would be if it removed the oldest item once the name is found.
delete_first(data, name) ==
    IF IndexOf(data, name) # 0 THEN [raised |-> "", data |-> RemoveAt(data, 1)]
    ELSE [raised |-> ContactNotFound, data |-> data]

delete(data, name) ==
    LET i == IndexOf(data, name) IN
    IF i # 0 THEN [raised |-> "", data |-> RemoveAt(data, i)]
    ELSE [raised |-> ContactNotFound, data |-> data]

WindowDays == 7

\* The loop of get_upcoming_birthdays from item i on, with the list built so
\* far.  A ValueError of either replace() leaves the loop and the method.
RECURSIVE UpcomingFrom(_, _, _, _)
UpcomingFrom(data, today, i, upcoming_birthdays) ==
    IF i > Len(data) THEN [raised |-> "", value |-> upcoming_birthdays]
    ELSE
      LET record == data[i].record IN
      IF record.birthday = None
      THEN UpcomingFrom(data, today, i + 1, upcoming_birthdays)
      ELSE
        LET birthday_this_year == ReplaceYear(record.birthday, today.year) IN
        IF birthday_this_year.raised # ""
        THEN [raised |-> birthday_this_year.raised, value |-> <<>>]
        ELSE
          LET first == DaysBetween(birthday_this_year.value, today)
              birthday_next_year ==
                  ReplaceYear(birthday_this_year.value, today.year + 1)
          IN
          IF first < 0 /\ birthday_next_year.raised # ""
          THEN [raised |-> birthday_next_year.raised, value |-> <<>>]
          ELSE
            LET days_until_birthday ==
                    IF first < 0
                    THEN DaysBetween(birthday_next_year.value, today)
                    ELSE first
            IN UpcomingFrom(data, today, i + 1,
                   IF 0 <= days_until_birthday /\ days_until_birthday <= WindowDays
                   THEN Append(upcoming_birthdays, record)
                   ELSE upcoming_birthdays)

\* get_upcoming_birthdays as it would be with insert(0, record) for append.
get_upcoming_birthdays_newest_first(data, today) ==
    LET r == UpcomingFrom(data, today, 1, <<>>) IN
    [raised |-> r.raised,
     value |-> [a \in 1..Len(r.value) |-> r.value[Len(r.value) + 1 - a]]]

\* today is what datetime.now().date() returns during the call.
get_upcoming_birthdays(data, today) == UpcomingFrom(data, today, 1, <<>>)

---------------------------------------------------------------------------
(* Command handlers, each under @input_error: a ValueError raised inside   *)
(* becomes the returned message.                                           *)

\* A method call on the record object that find returned changes the object
\* the dict holds.
SetRecord(data, name, record) ==
    [data EXCEPT ![IndexOf(data, name)].record = record]

AddUsage == "Usage: add [name] [phone]"

\* "if phone: record.add_phone(phone)"
AddIfPhone(record, phone) ==
    IF phone # <<>> THEN add_phone(record, phone)
    ELSE [raised |-> "", record |-> record]

\* add_contact as it would be without the lookup: a new record every time.
add_contact_replace(args, data) ==
    IF Len(args) < 2 THEN [msg |-> AddUsage, data |-> data]
    ELSE LET r == AddIfPhone(Record(args[1]), args[2]) IN
         IF r.raised # "" THEN [msg |-> r.raised, data |-> data]
         ELSE [msg |-> "Contact added.", data |-> add_record(data, r.record)]

add_contact(args, data) ==
    IF Len(args) < 2 THEN [msg |-> AddUsage, data |-> data]
    ELSE
      LET name == args[1]
          phone == args[2]
          found == find(data, name)
      IN
      IF found.isRecord
      THEN LET r == AddIfPhone(found.value, phone) IN
           IF r.raised # "" THEN [msg |-> r.raised, data |-> data]
           ELSE [msg |-> "Contact updated.",
                 data |-> SetRecord(data, name, r.record)]
      ELSE LET r == AddIfPhone(Record(name), phone) IN
           IF r.raised # "" THEN [msg |-> r.raised, data |-> data]
           ELSE [msg |-> "Contact added.", data |-> add_record(data, r.record)]

ChangeUsage == "Usage: change [name] [old_phone] [new_phone]"

change_phone(args, data) ==
    IF Len(args) # 3 THEN [msg |-> ChangeUsage, data |-> data]
    ELSE
      LET name == args[1]
          found == find(data, name)
      IN
      IF found.isRecord
      THEN LET r == edit_phone(found.value, args[2], args[3]) IN
           [msg |-> IF r.raised # "" THEN r.raised ELSE "Phone number updated.",
            data |-> SetRecord(data, name, r.record)]
      ELSE [msg |-> ContactNotFound, data |-> data]

---------------------------------------------------------------------------
(* Inputs.  The arguments of a command are tokens of parse_input, that is  *)
(* of str.split(): none of them is empty.                                  *)

\* Longest phones list a record grows to in the directory's specification.
MaxPhones == 2

\* Longest phones list the record grows to in the phones' specification.
MaxEditPhones == 3

Names == {"Ann", "Bob"}

P1 == Rep("1", PhoneLen)

P2 == Rep("2", PhoneLen)

ShortPhone == Rep("1", PhoneLen - 1)

AlphaPhone == Rep("1", PhoneLen - 1) \o <<"a">>

DateStr(dd, mm, yyyy) == dd \o <<".">> \o mm \o <<".">> \o yyyy

D_15_06_2024 == DateStr(<<"1", "5">>, <<"0", "6">>, <<"2", "0", "2", "4">>)

D_1_6_2024 == DateStr(<<"1">>, <<"6">>, <<"2", "0", "2", "4">>)

D_31_02_2020 == DateStr(<<"3", "1">>, <<"0", "2">>, <<"2", "0", "2", "0">>)

D_29_02_2023 == DateStr(<<"2", "9">>, <<"0", "2">>, <<"2", "0", "2", "3">>)

D_Iso == <<"2", "0", "2", "4", "-", "0", "6", "-", "1", "5">>

---------------------------------------------------------------------------
(* State: book is the AddressBook's data; last is the latest call, with    *)
(* what it raised or returned; prev is the data before that call.          *)

NoCall == [op |-> "none", args |-> <<>>, today |-> None, raised |-> "",
           msg |-> "", value |-> <<>>]

Init ==
    /\ book = <<>>
    /\ prev = <<>>
    /\ last = NoCall

Call(op, args) == [NoCall EXCEPT !.op = op, !.args = args]

\* The record of this name, if any, has fewer than max phones: what bounds
\* the growth of the lists in the specifications below.
Below(name, max) ==
    find(book, name).isRecord => Len(find(book, name).value.phones) < max

\* The "add" command.
AddContact(args) ==
    /\ prev' = book
    /\ book' = add_contact(args, book).data
    /\ last' = [Call("add_contact", args) EXCEPT !.msg = add_contact(args, book).msg]

\* The "change" command.
ChangePhone(args) ==
    /\ prev' = book
    /\ book' = change_phone(args, book).data
    /\ last' = [Call("change_phone", args) EXCEPT
                   !.msg = change_phone(args, book).msg]

\* book.find(name).add_phone(phone)
RecordAddPhone(name, phone) ==
    /\ find(book, name).isRecord
    /\ LET r == add_phone(find(book, name).value, phone) IN
       /\ prev' = book
       /\ book' = SetRecord(book, name, r.record)
       /\ last' = [Call("add_phone", <<name, phone>>) EXCEPT !.raised = r.raised]

\* book.find(name).remove_phone(phone)
RecordRemovePhone(name, phone) ==
    /\ find(book, name).isRecord
    /\ prev' = book
    /\ book' = SetRecord(book, name, remove_phone(find(book, name).value, phone))
    /\ last' = Call("remove_phone", <<name, phone>>)

\* book.find(name).edit_phone(old_phone, new_phone)
RecordEditPhone(name, old_phone, new_phone) ==
    /\ find(book, name).isRecord
    /\ LET r == edit_phone(find(book, name).value, old_phone, new_phone) IN
       /\ prev' = book
       /\ book' = SetRecord(book, name, r.record)
       /\ last' = [Call("edit_phone", <<name, old_phone, new_phone>>) EXCEPT
                      !.raised = r.raised]

\* book.find(name).add_birthday(birthday)
RecordAddBirthday(name, birthday) ==
    /\ find(book, name).isRecord
    /\ LET r == add_birthday(find(book, name).value, birthday) IN
       /\ prev' = book
       /\ book' = SetRecord(book, name, r.record)
       /\ last' = [Call("add_birthday", <<name, birthday>>) EXCEPT
                      !.raised = r.raised]

\* book.add_record(record)
BookAddRecord(record) ==
    /\ prev' = book
    /\ book' = add_record(book, record)
    /\ last' = Call("add_record", <<record.name>>)

\* book.delete(name)
BookDelete(name) ==
    /\ prev' = book
    /\ book' = delete(book, name).data
    /\ last' = [Call("delete", <<name>>) EXCEPT !.raised = delete(book, name).raised]

\* book.get_upcoming_birthdays(), called on the day today
BookGetUpcomingBirthdays(today) ==
    /\ prev' = book
    /\ book' = book
    /\ last' = [Call("get_upcoming_birthdays", <<>>) EXCEPT
                   !.today = today,
                   !.raised = get_upcoming_birthdays(book, today).raised,
                   !.value = get_upcoming_birthdays(book, today).value]

---------------------------------------------------------------------------
(* The directory: records are created by the add command or inserted, get  *)
(* phones and birthdays, and are deleted.                                  *)

BookPhones == {P1, P2, ShortPhone}

BookDates == {D_15_06_2024, D_31_02_2020, D_Iso}

\* Records a caller builds before add_record: fresh, or with one phone.
NewRecords == {Record(n) : n \in Names} \cup {add_phone(Record(n), P1).record : n \in Names}

Next ==
    \/ \E n \in Names, p \in BookPhones :
           Below(n, MaxPhones) /\ AddContact(<<n, p>>)
    \/ \E n \in Names : AddContact(<<n>>)
    \/ \E n \in Names, p \in BookPhones :
           Below(n, MaxPhones) /\ RecordAddPhone(n, p)
    \/ \E n \in Names, d \in BookDates : RecordAddBirthday(n, d)
    \/ \E r \in NewRecords : BookAddRecord(r)
    \/ \E n \in Names : BookDelete(n)

Spec == Init /\ [][Next]_vars

---------------------------------------------------------------------------
(* One record's phones: added, removed and edited, by method call and by   *)
(* command.                                                                *)

PhoneNames == {"Ann"}

PhoneInputs == {P1, P2, ShortPhone, AlphaPhone}

NextPhones ==
    \/ \E n \in PhoneNames, p \in PhoneInputs :
           Below(n, MaxEditPhones) /\ AddContact(<<n, p>>)
    \/ \E n \in PhoneNames, p \in PhoneInputs :
           Below(n, MaxEditPhones) /\ RecordAddPhone(n, p)
    \/ \E n \in PhoneNames, p \in PhoneInputs : RecordRemovePhone(n, p)
    \/ \E n \in PhoneNames, old \in PhoneInputs, new \in PhoneInputs :
           RecordEditPhone(n, old, new)
    \/ \E n \in PhoneNames, old \in PhoneInputs, new \in PhoneInputs :
           ChangePhone(<<n, old, new>>)
    \/ \E n \in PhoneNames, old \in PhoneInputs : ChangePhone(<<n, old>>)

SpecPhones == Init /\ [][NextPhones]_vars

---------------------------------------------------------------------------
(* Birthdays: records get birthdays and the upcoming ones are listed on    *)
(* different days.                                                         *)

D_02_01_1990 == DateStr(<<"0", "2">>, <<"0", "1">>, <<"1", "9", "9", "0">>)

D_04_01_2000 == DateStr(<<"0", "4">>, <<"0", "1">>, <<"2", "0", "0", "0">>)

D_05_01_1985 == DateStr(<<"0", "5">>, <<"0", "1">>, <<"1", "9", "8", "5">>)

D_28_12_1999 == DateStr(<<"2", "8">>, <<"1", "2">>, <<"1", "9", "9", "9">>)

D_29_02_2000 == DateStr(<<"2", "9">>, <<"0", "2">>, <<"2", "0", "0", "0">>)

BirthdayInputs ==
    {D_02_01_1990, D_04_01_2000, D_05_01_1985, D_28_12_1999, D_29_02_2000,
     D_1_6_2024, D_29_02_2023}

\* Days on which the list is asked for: before the turn of a leap year, in
\* June, after and before 29 February of a leap year, in a common year.
Todays ==
    {date(2024, 12, 28), date(2024, 6, 10), date(2024, 3, 1),
     date(2024, 2, 25), date(2025, 12, 28)}

NextBirthdays ==
    \/ \E n \in Names : BookAddRecord(Record(n))
    \/ \E n \in Names, d \in BirthdayInputs : RecordAddBirthday(n, d)
    \/ \E n \in Names : BookDelete(n)
    \/ \E t \in Todays : BookGetUpcomingBirthdays(t)

SpecBirthdays == Init /\ [][NextBirthdays]_vars

---------------------------------------------------------------------------
(* Vocabulary of the properties *)

TenDigits(v) ==
    /\ Len(v) = 10
    /\ \A i \in 1..Len(v) : v[i] \in {"0", "1", "2", "3", "4", "5", "6", "7", "8", "9"}

Has(data, name) == \E i \in 1..Len(data) : data[i].key = name

\* The record stored under name (which data holds).
At(data, name) == data[CHOOSE i \in 1..Len(data) : data[i].key = name].record

Occurs(phones, v) == \E i \in 1..Len(phones) : phones[i] = v

IsPrefix(a, b) == Len(a) <= Len(b) /\ SubSeq(b, 1, Len(a)) = a

\* Days from today to the next occurrence of the birthday's day and month,
\* in today's year or the year after, lie in 0..7.
InWindow(b, today) ==
    \E y \in {today.year, today.year + 1} :
        /\ ValidDate(y, b.month, b.day)
        /\ DaysBetween(date(y, b.month, b.day), today) \in 0..7
        /\ y = today.year + 1 =>
              ~(/\ ValidDate(today.year, b.month, b.day)
                /\ DaysBetween(date(today.year, b.month, b.day), today) >= 0)

Listed(record) ==
    /\ last.raised = ""
    /\ \E a \in 1..Len(last.value) : last.value[a] = record

---------------------------------------------------------------------------
(* C1: every phone stored in a record has a value of exactly 10 decimal    *)
(* digits, whatever add_phone, remove_phone and edit_phone calls were made *)
(* (stated as the claim has it; edit_phone breaks it).                     *)
C1_StoredPhonesAreTenDigits ==
    \A i \in 1..Len(book) :
        \A j \in 1..Len(book[i].record.phones) :
            TenDigits(book[i].record.phones[j])

(* C2: get_upcoming_birthdays lists a record if and only if it has a       *)
(* birthday whose next occurrence is 0 to 7 days after today (stated as    *)
(* the claim has it; the call raises when a birthday is 29 February and    *)
(* the year it is moved to is not a leap year).                            *)
C2_ListedIffInWindow ==
    last.op = "get_upcoming_birthdays" =>
        \A i \in 1..Len(book) :
            Listed(book[i].record) <=>
                (/\ book[i].record.birthday # None
                 /\ InWindow(book[i].record.birthday, last.today))

(* C3: every entry's record carries the entry's key as its name, and no    *)
(* two entries have the same key.                                          *)
C3_KeysAreNamesAndUnique ==
    /\ \A i \in 1..Len(book) : book[i].record.name = book[i].key
    /\ \A i, j \in 1..Len(book) : book[i].key = book[j].key => i = j

C3_Witness ==
    /\ last.op = "add_record"
    /\ Has(prev, last.args[1])
    /\ Len(book) = 2
    /\ At(prev, last.args[1]) # At(book, last.args[1])

(* C4: the list get_upcoming_birthdays returns is in the directory's       *)
(* insertion order, whatever the order of the dates; it holds only records *)
(* of the directory, each once, and every record in the window is in it.   *)
C4_ListInInsertionOrder ==
    (last.op = "get_upcoming_birthdays" /\ last.raised = "") =>
        /\ \A a \in 1..Len(last.value) :
              /\ Has(book, last.value[a].name)
              /\ At(book, last.value[a].name) = last.value[a]
        /\ \A a, b \in 1..Len(last.value) :
              a < b =>
                (CHOOSE i \in 1..Len(book) : book[i].key = last.value[a].name)
                  < (CHOOSE i \in 1..Len(book) : book[i].key = last.value[b].name)
        /\ \A i \in 1..Len(book) :
              (/\ book[i].record.birthday # None
               /\ InWindow(book[i].record.birthday, last.today))
                => Listed(book[i].record)

\* On 28.12.2024 two records are listed, the first one's birthday (02.01) five
\* days away, the second one's (28.12) on the day itself.
C4_Witness ==
    /\ last.op = "get_upcoming_birthdays"
    /\ last.raised = ""
    /\ last.today = date(2024, 12, 28)
    /\ Len(last.value) = 2
    /\ last.value[1].birthday = date(1990, 1, 2)
    /\ last.value[2].birthday = date(1999, 12, 28)

(* C5: delete of a name the directory does not hold raises "Contact not    *)
(* found."; delete of a name it holds removes that entry and no other,     *)
(* after which find reports the name as not found and finds every other    *)
(* name with the record it had.                                            *)
C5_DeleteRemovesExactlyThatEntry ==
    last.op = "delete" =>
        LET name == last.args[1] IN
        /\ ~Has(prev, name) => last.raised = "Contact not found."
        /\ Has(prev, name) =>
              /\ last.raised = ""
              /\ ~find(book, name).isRecord
              /\ find(book, name).value = "Contact not found."
              /\ Len(book) = Len(prev) - 1
              /\ \A i \in 1..Len(prev) :
                    prev[i].key # name =>
                        /\ find(book, prev[i].key).isRecord
                        /\ find(book, prev[i].key).value = prev[i].record

\* An entry was deleted and another one, with a phone, is still there.
C5_Witness ==
    /\ last.op = "delete"
    /\ last.raised = ""
    /\ Len(prev) = 2
    /\ Len(book) = 1
    /\ Len(book[1].record.phones) > 0
    /\ prev[1].key = last.args[1]

(* C6: edit_phone(old, new) with a new value of 10 digits replaces the     *)
(* first phone equal to old and nothing else (same length, same order,     *)
(* later phones equal to old kept), and find_phone(new) then finds it;     *)
(* when no phone equals old it raises "Phone number not found." and the    *)
(* phones are unchanged.                                                   *)
C6_EditReplacesFirstMatchOnly ==
    last.op = "edit_phone" =>
        LET name == last.args[1]
            old == last.args[2]
            new == last.args[3]
            before == At(prev, name).phones
            after == At(book, name).phones
        IN
        /\ (Occurs(before, old) /\ TenDigits(new)) =>
              /\ last.raised = ""
              /\ Len(after) = Len(before)
              /\ \E k \in 1..Len(before) :
                    /\ before[k] = old
                    /\ \A j \in 1..(k - 1) : before[j] # old
                    /\ after[k] = new
                    /\ \A j \in 1..Len(before) : j # k => after[j] = before[j]
              /\ find_phone(At(book, name), new) = new
        /\ ~Occurs(before, old) =>
              /\ last.raised = "Phone number not found."
              /\ after = before

\* The edited value occurred twice, with another phone between: the first
\* occurrence was replaced and the later one is still there.
C6_Witness ==
    /\ last.op = "edit_phone"
    /\ last.raised = ""
    /\ last.args[2] # last.args[3]
    /\ Len(At(prev, last.args[1]).phones) = 3
    /\ At(prev, last.args[1]).phones[1] = last.args[2]
    /\ At(prev, last.args[1]).phones[2] # last.args[2]
    /\ At(prev, last.args[1]).phones[3] = last.args[2]
    /\ At(book, last.args[1]).phones[1] = last.args[3]
    /\ At(book, last.args[1]).phones[3] = last.args[2]

(* C7: a failing call changes nothing: add_phone with a value that is not  *)
(* 10 digits raises and leaves the phones as they were, add_birthday with  *)
(* an invalid date raises and leaves the birthday as it was, set or not,   *)
(* and the add command with a new name and an invalid phone adds no entry. *)
C7_FailingCallChangesNothing ==
    /\ (last.op = "add_phone" /\ ~TenDigits(last.args[2])) =>
          /\ last.raised = "Phone number must be 10 digits."
          /\ book = prev
    /\ (last.op = "add_birthday" /\ last.args[2] \in {D_31_02_2020, D_Iso}) =>
          /\ last.raised = "Invalid date format. Use DD.MM.YYYY"
          /\ book = prev
    /\ (last.op \in {"add_phone", "add_birthday"} /\ last.raised # "") =>
          book = prev
    /\ (/\ last.op = "add_contact"
        /\ Len(last.args) >= 2
        /\ ~Has(prev, last.args[1])
        /\ ~TenDigits(last.args[2])) =>
          /\ last.msg = "Phone number must be 10 digits."
          /\ book = prev

\* The add command failed on a new name while the other record, with a phone
\* and a birthday, was in the directory.
C7_Witness ==
    /\ last.op = "add_contact"
    /\ Len(last.args) >= 2
    /\ ~Has(prev, last.args[1])
    /\ ~TenDigits(last.args[2])
    /\ Len(prev) = 1
    /\ Len(prev[1].record.phones) > 0
    /\ prev[1].record.birthday # None
    /\ ~Has(book, last.args[1])

(* C8: edit_phone(old, new) where a phone equals old and new is not 10     *)
(* digits raises the validation error, and afterwards the first phone that *)
(* was equal to old holds new; the change command reports the same error   *)
(* and leaves the same phones.                                             *)
C8_InvalidEditLeavesNewValue ==
    (/\ last.op \in {"edit_phone", "change_phone"}
     /\ Len(last.args) = 3
     /\ Has(prev, last.args[1])
     /\ Occurs(At(prev, last.args[1]).phones, last.args[2])
     /\ ~TenDigits(last.args[3])) =>
        LET before == At(prev, last.args[1]).phones
            after == At(book, last.args[1]).phones
            k == CHOOSE i \in 1..Len(before) :
                    /\ before[i] = last.args[2]
                    /\ \A j \in 1..(i - 1) : before[j] # last.args[2]
        IN
        /\ last.op = "edit_phone" => last.raised = "Phone number must be 10 digits."
        /\ last.op = "change_phone" => last.msg = "Phone number must be 10 digits."
        /\ Len(after) = Len(before)
        /\ after[k] = last.args[3]
        /\ last.args[3] # last.args[2] => after[k] # last.args[2]
        /\ \A j \in 1..Len(before) : j # k => after[j] = before[j]

\* The change command was refused and the record now holds the refused value.
C8_Witness ==
    /\ last.op = "change_phone"
    /\ last.msg = "Phone number must be 10 digits."
    /\ Has(prev, last.args[1])
    /\ TenDigits(At(prev, last.args[1]).phones[1])
    /\ At(prev, last.args[1]).phones[1] = last.args[2]
    /\ At(book, last.args[1]).phones[1] = last.args[3]
    /\ ~TenDigits(last.args[3])

(* C9: the add command never replaces a record: for a name the directory   *)
(* holds it appends the valid phone to that record, whose earlier phones   *)
(* and birthday stay, and the entries stay as many and in place; for a     *)
(* name it does not hold it adds one entry, at the end, with exactly that  *)
(* phone and no birthday.                                                  *)
C9_AddCommandIsUpsert ==
    (last.op = "add_contact" /\ Len(last.args) >= 2) =>
        LET name == last.args[1]
            phone == last.args[2]
        IN
        /\ Has(prev, name) =>
              /\ Len(book) = Len(prev)
              /\ \A i \in 1..Len(prev) :
                    /\ book[i].key = prev[i].key
                    /\ prev[i].key # name => book[i] = prev[i]
              /\ IsPrefix(At(prev, name).phones, At(book, name).phones)
              /\ At(book, name).birthday = At(prev, name).birthday
              /\ At(book, name).name = name
              /\ TenDigits(phone) =>
                    At(book, name).phones = Append(At(prev, name).phones, phone)
        /\ (~Has(prev, name) /\ TenDigits(phone)) =>
              book = Append(prev, [key |-> name,
                                   record |-> [name |-> name,
                                               phones |-> <<phone>>,
                                               birthday |-> None]])

\* A phone was added by the command to a record that had a phone and a
\* birthday, with another record in the directory.
C9_Witness ==
    /\ last.op = "add_contact"
    /\ last.msg = "Contact updated."
    /\ Len(prev) = 2
    /\ Has(prev, last.args[1])
    /\ Len(At(prev, last.args[1]).phones) = 1
    /\ At(prev, last.args[1]).birthday # None
    /\ Len(At(book, last.args[1]).phones) = 2

(* C10: get_upcoming_birthdays returns a list, whatever the day and the    *)
(* birthdays add_birthday accepted (stated as the claim has it; a birthday *)
(* of 29 February makes the call raise when the year it is moved to is not *)
(* a leap year).                                                           *)
C10_ListingNeverRaises ==
    last.op = "get_upcoming_birthdays" => last.raised = ""

===========================================================================
